---- MODULE Spec2Model ----
(***************************************************************************)
(* Trigger evaluation and dispatch core of trigger_handler.py:             *)
(* condition matching, the Redis rate-limit gate, concurrent action        *)
(* execution with retry/backoff, and aggregation into trigger_stats.       *)
(*                                                                         *)
(* Coroutines of the asyncio loop interleave only where they suspend, so   *)
(* every action below is one run of a coroutine between two suspensions    *)
(* (or a prefix of such a run that touches no shared state).               *)
(***************************************************************************)
EXTENDS Integers, Sequences, FiniteSets, TLC

(***************************************************************************)
(* Strings.  A Python str is a tuple of one-character strings, so that     *)
(* startswith, slicing, substring search and ordering are computed.        *)
(***************************************************************************)
S_event_type == <<"e", "v", "e", "n", "t", "_", "t", "y", "p", "e">>
S_source == <<"s", "o", "u", "r", "c", "e">>
S_data_prefix == <<"d", "a", "t", "a", ".">>
S_metadata_prefix == <<"m", "e", "t", "a", "d", "a", "t", "a", ".">>
S_user_created == <<"u", "s", "e", "r", ".", "c", "r", "e", "a", "t", "e", "d">>
S_data_email == <<"d", "a", "t", "a", ".", "e", "m", "a", "i", "l">>
S_at == <<"@">>
S_email == <<"e", "m", "a", "i", "l">>
S_a_at_b == <<"a", "@", "b", ".", "c", "o", "m">>
S_deployment_completed == <<"d", "e", "p", "l", "o", "y", "m", "e", "n", "t", ".", "c", "o", "m", "p", "l", "e", "t", "e", "d">>
S_data_environment == <<"d", "a", "t", "a", ".", "e", "n", "v", "i", "r", "o", "n", "m", "e", "n", "t">>
S_staging == <<"s", "t", "a", "g", "i", "n", "g">>
S_production == <<"p", "r", "o", "d", "u", "c", "t", "i", "o", "n">>
S_alert_critical == <<"a", "l", "e", "r", "t", ".", "c", "r", "i", "t", "i", "c", "a", "l">>
S_data_severity == <<"d", "a", "t", "a", ".", "s", "e", "v", "e", "r", "i", "t", "y">>
S_severity == <<"s", "e", "v", "e", "r", "i", "t", "y">>
S_data_file_uploaded == <<"d", "a", "t", "a", ".", "f", "i", "l", "e", "_", "u", "p", "l", "o", "a", "d", "e", "d">>
S_data_file_size == <<"d", "a", "t", "a", ".", "f", "i", "l", "e", "_", "s", "i", "z", "e">>
S_data_file_type == <<"d", "a", "t", "a", ".", "f", "i", "l", "e", "_", "t", "y", "p", "e">>
S_csv == <<"c", "s", "v">>
S_json == <<"j", "s", "o", "n">>
S_parquet == <<"p", "a", "r", "q", "u", "e", "t">>
S_github == <<"g", "i", "t", "h", "u", "b">>
S_metadata_region == <<"m", "e", "t", "a", "d", "a", "t", "a", ".", "r", "e", "g", "i", "o", "n">>
S_region == <<"r", "e", "g", "i", "o", "n">>
S_eu == <<"e", "u">>
S_payload_x == <<"p", "a", "y", "l", "o", "a", "d", ".", "x">>

\* The characters in use, in code-point order: Python orders str by code point.
CharOrder == <<".", "@", "_", "a", "b", "c", "d", "e", "f", "g", "h", "i", "j", "l",
               "m", "n", "o", "p", "q", "r", "s", "t", "u", "v", "x", "y", "z">>

Ord(c) == CHOOSE i \in 1..Len(CharOrder) : CharOrder[i] = c

\* str.startswith(prefix)
StartsWith(s, prefix) ==
    /\ Len(s) >= Len(prefix)
    /\ SubSeq(s, 1, Len(prefix)) = prefix

\* s[n:]
DropPrefix(s, n) == SubSeq(s, n + 1, Len(s))

\* "sub in s" for two str
IsSubstring(sub, s) ==
    \E i \in 0..(Len(s) - Len(sub)) : SubSeq(s, i + 1, i + Len(sub)) = sub

\* a < b for two str (lexicographic by code point)
StrLt(a, b) ==
    \E k \in 0..Len(a) :
        /\ k <= Len(b)
        /\ SubSeq(a, 1, k) = SubSeq(b, 1, k)
        /\ \/ k = Len(a) /\ k < Len(b)
           \/ k < Len(a) /\ k < Len(b) /\ Ord(a[k + 1]) < Ord(b[k + 1])

(***************************************************************************)
(* Python values: None, int, str, and list of scalars.  Event data holds   *)
(* scalars; a condition's literal may also be a list.                      *)
(***************************************************************************)
PyNone == [t |-> "none", v |-> <<>>]
PyInt(n) == [t |-> "int", v |-> n]
PyStr(s) == [t |-> "str", v |-> s]
PyList(l) == [t |-> "list", v |-> l]

\* a == b for two scalars
ScalarEq(a, b) == a.t = b.t /\ (a.t = "none" \/ a.v = b.v)

\* a == b
PyEq(a, b) ==
    /\ a.t = b.t
    /\ IF a.t = "list"
       THEN /\ Len(a.v) = Len(b.v)
            /\ \A i \in 1..Len(a.v) : ScalarEq(a.v[i], b.v[i])
       ELSE ScalarEq(a, b)

\* The outcome of an expression that yields a bool or raises.
B(b) == IF b THEN "T" ELSE "F"

Neg(r) == IF r = "ERR" THEN "ERR" ELSE IF r = "T" THEN "F" ELSE "T"

\* a < b : defined on two int or two str, TypeError on any other pair with a
\* scalar on the left.
PyLt(a, b) ==
    IF a.t = "int" /\ b.t = "int" THEN B(a.v < b.v)
    ELSE IF a.t = "str" /\ b.t = "str" THEN B(StrLt(a.v, b.v))
    ELSE "ERR"

\* a <= b
PyLe(a, b) ==
    IF a.t = "int" /\ b.t = "int" THEN B(a.v <= b.v)
    ELSE IF a.t = "str" /\ b.t = "str" THEN B(a.v = b.v \/ StrLt(a.v, b.v))
    ELSE "ERR"

\* "a in b": membership in a list, substring in a str, TypeError otherwise.
PyIn(a, b) ==
    IF b.t = "list" THEN B(\E i \in 1..Len(b.v) : ScalarEq(a, b.v[i]))
    ELSE IF b.t = "str" /\ a.t = "str" THEN B(IsSubstring(a.v, b.v))
    ELSE "ERR"

(***************************************************************************)
(* Data model                                                              *)
(***************************************************************************)
ConditionOperators ==
    {"eq", "ne", "gt", "lt", "gte", "lte", "contains", "regex", "in", "not_in"}

ActionTypes == {"http", "grpc", "kafka", "redis", "email", "webhook"}

\* dict.get(key): None when the key is missing
DictGet(d, key) == IF key \in DOMAIN d THEN d[key] ELSE PyNone

_extract_value(field, payload) ==
    IF field = S_event_type THEN PyStr(payload.event_type)
    ELSE IF field = S_source THEN PyStr(payload.source)
    ELSE IF StartsWith(field, S_data_prefix)
         THEN DictGet(payload.data, DropPrefix(field, 5))
    ELSE IF StartsWith(field, S_metadata_prefix)
         THEN DictGet(payload.metadata, DropPrefix(field, 9))
    ELSE PyNone

\* "T", "F", or "ERR" when the comparison raises TypeError.
_evaluate_condition(condition, payload) ==
    LET value == _extract_value(condition.field, payload)
        cv == condition.value
        op == condition.operator
    IN  IF op = "eq" THEN B(PyEq(value, cv))
        ELSE IF op = "ne" THEN B(~PyEq(value, cv))
        ELSE IF op = "gt" THEN PyLt(cv, value)
        ELSE IF op = "lt" THEN PyLt(value, cv)
        ELSE IF op = "gte" THEN PyLe(cv, value)
        ELSE IF op = "lte" THEN PyLe(value, cv)
        ELSE IF op = "contains"
             THEN IF value.t # "str" THEN "F" ELSE PyIn(cv, value)
        ELSE IF op = "in" THEN PyIn(value, cv)
        ELSE IF op = "not_in" THEN Neg(PyIn(value, cv))
        ELSE "F"

\* The loop over conditions[i..]: the first False returns, a raise propagates.
RECURSIVE EvalFrom(_, _, _)
EvalFrom(conditions, payload, i) ==
    IF i > Len(conditions) THEN "T"
    ELSE LET r == _evaluate_condition(conditions[i], payload)
         IN  IF r = "T" THEN EvalFrom(conditions, payload, i + 1) ELSE r

_evaluate_conditions(conditions, payload) == EvalFrom(conditions, payload, 1)

(***************************************************************************)
(* Bounds of the model                                                     *)
(***************************************************************************)
\* Coroutine slots that run process_event concurrently.
Handlers == {1, 2}

\* Events submitted and registry route calls made in one behaviour of Spec,
\* and the largest rate_limit posted in it.
MaxEvents == 2

MaxRegOps == 1

MaxLimit == 1

\* Events submitted and registry route calls made in one behaviour of
\* SpecRegistry.
MaxRegistryEvents == 2

MaxRegistryOps == 2

\* The retries posted in SpecLive.
MaxLiveRetries == 1

\* The same for SpecFan.
MaxFanEvents == 2

MaxFanOps == 1

\* The same for SpecActions, and the largest retries posted in it.
MaxActionEvents == 1

MaxActionRegOps == 1

MaxRetries == 3

\* redis expire(key, 60)
RateWindow == 60

\* Action.retries default
DefaultRetries == 3

\* Time advances in steps of half a window.
TickSteps == {RateWindow \div 2}

\* Optional[int]: <<>> is None, <<n>> is n.
None == <<>>

Some(n) == <<n>>

\* Python truthiness of an Optional[int]
Truthy(o) == o # None /\ o[1] # 0

(***************************************************************************)
(* Action and TriggerConfig.  payload, headers and timeout only travel to  *)
(* the transport and decide nothing in the handler; they are left out.     *)
(***************************************************************************)
Action(type, target, retries) ==
    [type |-> type, target |-> target, retries |-> retries]

Condition(field, operator, value) ==
    [field |-> field, operator |-> operator, value |-> value]

TriggerConfig(name, conditions, actions, enabled, rate_limit, cooldown) ==
    [name |-> name, conditions |-> conditions, actions |-> actions,
     enabled |-> enabled, rate_limit |-> rate_limit, cooldown |-> cooldown]

\* _setup_default_triggers: the registry after construction, in insertion order.
DefaultTriggers ==
    << TriggerConfig("user-welcome",
         << Condition(S_event_type, "eq", PyStr(S_user_created)),
            Condition(S_data_email, "contains", PyStr(S_at)) >>,
         << Action("http", "https://api.example.com/welcome", DefaultRetries),
            Action("kafka", "user-events", DefaultRetries) >>,
         TRUE, None, None),
       TriggerConfig("deployment-notify",
         << Condition(S_event_type, "eq", PyStr(S_deployment_completed)),
            Condition(S_data_environment, "in",
                      PyList(<<PyStr(S_staging), PyStr(S_production)>>)) >>,
         << Action("http", "https://hooks.slack.com/services", DefaultRetries) >>,
         TRUE, None, None),
       TriggerConfig("critical-alert",
         << Condition(S_event_type, "eq", PyStr(S_alert_critical)),
            Condition(S_data_severity, "gte", PyInt(8)) >>,
         << Action("http", "https://api.pagerduty.com/incidents", DefaultRetries),
            Action("redis", "critical-alerts", DefaultRetries) >>,
         TRUE, Some(10), Some(300)),
       TriggerConfig("data-pipeline",
         << Condition(S_event_type, "eq", PyStr(S_data_file_uploaded)),
            Condition(S_data_file_size, "gt", PyInt(1024)),
            Condition(S_data_file_type, "in",
                      PyList(<<PyStr(S_csv), PyStr(S_json), PyStr(S_parquet)>>)) >>,
         << Action("kafka", "data-processing", DefaultRetries),
            Action("grpc", "data-processor:50051", DefaultRetries) >>,
         TRUE, None, None) >>

(***************************************************************************)
(* _parse_trigger_config.  A request body is a function from keys to       *)
(* values; a missing required key raises KeyError, a string outside the    *)
(* enum raises ValueError.                                                 *)
(***************************************************************************)
Get(d, key, default) == IF key \in DOMAIN d THEN d[key] ELSE default

ConditionParses(c) ==
    /\ {"field", "operator", "value"} \subseteq DOMAIN c
    /\ c["operator"] \in ConditionOperators

ActionParses(a) ==
    /\ {"type", "target"} \subseteq DOMAIN a
    /\ a["type"] \in ActionTypes

\* A faulty ParseRaises: the body is not validated.
ParseRaisesNever(config) == FALSE

\* KeyError or ValueError out of _parse_trigger_config
ParseRaises(config) ==
    \/ \E i \in 1..Len(Get(config, "conditions", <<>>)) :
          ~ConditionParses(config["conditions"][i])
    \/ \E i \in 1..Len(Get(config, "actions", <<>>)) :
          ~ActionParses(config["actions"][i])
    \/ "name" \notin DOMAIN config

_parse_trigger_config(config) ==
    LET cs == Get(config, "conditions", <<>>)
        as == Get(config, "actions", <<>>)
    IN  TriggerConfig(
            config["name"],
            [i \in 1..Len(cs) |->
                Condition(cs[i]["field"], cs[i]["operator"], cs[i]["value"])],
            [i \in 1..Len(as) |->
                Action(as[i]["type"], as[i]["target"],
                       Get(as[i], "retries", DefaultRetries))],
            Get(config, "enabled", TRUE),
            Get(config, "rate_limit", None),
            Get(config, "cooldown", None))

(***************************************************************************)
(* Inputs: the events submitted to the webhooks and the request bodies     *)
(* posted to /triggers/{trigger_name}.                                     *)
(***************************************************************************)
EventPayload(event_type, source, data, metadata) ==
    [event_type |-> event_type, source |-> source, data |-> data,
     metadata |-> metadata]

\* {type: "alert.critical", data: {severity: 5}}
EvAlertLow ==
    EventPayload(S_alert_critical, S_github, (S_severity :> PyInt(5)), <<>>)

\* an alert that carries no severity
EvAlertBare == EventPayload(S_alert_critical, S_github, <<>>, <<>>)

\* {type: "user.created", data: {email: "a@b.com"}}
EvUserCreated ==
    EventPayload(S_user_created, S_github, (S_email :> PyStr(S_a_at_b)), <<>>)

\* The state holds an event by its key in this table.
Event(key) ==
    CASE key = "alert-low" -> EvAlertLow
      [] key = "alert-bare" -> EvAlertBare
      [] key = "user-created" -> EvUserCreated

GateEvents == {"alert-low", "alert-bare"}

ActionEvents == {"alert-low"}

RawIsAlert ==
    [field |-> S_event_type, operator |-> "eq", value |-> PyStr(S_alert_critical)]

RawHasSeverity ==
    [field |-> S_data_severity, operator |-> "lte", value |-> PyInt(5)]

RawAction(type, retries) ==
    [type |-> type, target |-> "sink", retries |-> retries]

\* enabled=false, no conditions: matches every event
RawDisabled ==
    [name |-> "x", enabled |-> FALSE, actions |-> <<RawAction("http", 0)>>]

RawLimited(n) ==
    [name |-> "x", conditions |-> <<RawIsAlert>>,
     actions |-> <<RawAction("http", 0)>>, rate_limit |-> Some(n)]

RawCooldown ==
    [name |-> "x", conditions |-> <<RawIsAlert>>,
     actions |-> <<RawAction("redis", 1)>>, cooldown |-> Some(RateWindow)]

RawFanOut(r) ==
    [name |-> "x", conditions |-> <<RawIsAlert, RawHasSeverity>>,
     actions |-> <<RawAction("http", r), RawAction("kafka", 0)>>]

RawUnknownKind ==
    [name |-> "x", conditions |-> <<RawIsAlert>>,
     actions |-> <<RawAction("webhook", 1), RawAction("grpc", 1)>>,
     rate_limit |-> Some(1)]

RawBadOperator ==
    [name |-> "x",
     conditions |-> <<[field |-> S_source, operator |-> "matches",
                       value |-> PyStr(S_github)]>>,
     actions |-> <<RawAction("http", 0)>>]

RawBadKind ==
    [name |-> "x", actions |-> <<RawAction("sms", 0)>>]

RawNoTarget ==
    [name |-> "x", actions |-> <<[type |-> "http"]>>]

\* a body without the "name" key, which _parse_trigger_config reads
RawNoName ==
    [conditions |-> <<RawIsAlert>>, actions |-> <<RawAction("http", 0)>>]

\* no conditions: matches every event
RawCatchAll ==
    [name |-> "x", actions |-> <<RawAction("kafka", 0)>>, rate_limit |-> Some(1)]

\* The state holds a request body by its key in this table.
Body(key) ==
    CASE key[1] = "disabled" -> RawDisabled
      [] key[1] = "limited" -> RawLimited(key[2])
      [] key[1] = "cooldown" -> RawCooldown
      [] key[1] = "fan-out" -> RawFanOut(key[2])
      [] key[1] = "unknown-kind" -> RawUnknownKind
      [] key[1] = "bad-operator" -> RawBadOperator
      [] key[1] = "bad-kind" -> RawBadKind
      [] key[1] = "no-target" -> RawNoTarget
      [] key[1] = "no-name" -> RawNoName
      [] key[1] = "catch-all" -> RawCatchAll

\* The request bodies posted in Spec: the gates of _execute_trigger.
GateConfigs ==
    {<<"disabled">>, <<"cooldown">>, <<"bad-operator">>, <<"bad-kind">>,
     <<"no-target">>}
    \cup {<<"limited", n>> : n \in 0..MaxLimit}

\* The request bodies posted in SpecActions: the retry loop and the barrier.
ActionConfigs == {<<"unknown-kind">>} \cup {<<"fan-out", r>> : r \in 0..MaxRetries}

\* The request bodies posted in SpecRegistry: the registry routes.
RegistryConfigs ==
    {<<"unknown-kind">>, <<"cooldown">>, <<"bad-operator">>, <<"bad-kind">>,
     <<"no-target">>, <<"no-name">>}

RegistryEvents == {"alert-low"}

\* The request bodies of SpecWindow: a limit that lets a second fire into the
\* window, and an action that retries.
WindowConfigs == {<<"limited", MaxLimit + 1>>, <<"cooldown">>}

\* The request bodies of SpecLive: actions that exhaust their retries or
\* succeed on the way, and a trigger behind the rate check.
LiveConfigs == {<<"fan-out", MaxLiveRetries>>, <<"unknown-kind">>}

\* The request bodies of SpecRetries: an action posted with retries -1, next
\* to a rate-limited trigger and an action that retries.
RetryConfigs == {<<"fan-out", -1>>, <<"limited", 1>>, <<"cooldown">>}

\* The request bodies and events of SpecFan: one event that matches the
\* default user-welcome and the posted "x".
FanConfigs == {<<"catch-all">>}

FanEvents == {"user-created"}

\* Names the registry routes are called with.
RouteNames == {"x"}

(***************************************************************************)
(* State                                                                   *)
(***************************************************************************)
VARIABLES
    triggers,       \* self.triggers: the dict, as its entries in insertion order
    trigger_stats,  \* self.trigger_stats: name -> counters
    redis_client,   \* self.redis_client: "none" until initialize()
    redis,          \* the Redis keys rate_limit:<name>: name -> [count, ttl]
    pc,             \* per handler: where its process_event coroutine stands
    payload,        \* per handler: the event it processes (key of Event)
    matching,       \* per handler: matching_triggers (entries of the dict)
    idx,            \* per handler: position of the loop over matching_triggers
    tasks,          \* per handler: the tasks of the trigger being executed
    response,       \* the answer of the last registry route call
    evCount,        \* events submitted so far
    regOps,         \* registry route calls so far
    overlapped,     \* history: two events were in flight at once
    winFires,       \* history: name -> fires accepted in the current window
    winAge,         \* history: name -> time since the window's first fire
    cooling,        \* history: name -> cooldown time left since the last fire
    launched,       \* history: name -> actions launched
    evCond,         \* evaluator harness: the condition
    evPayload,      \* evaluator harness: the event (key of EvalEvent)
    evResult        \* evaluator harness: the outcome

vars ==
    <<triggers, trigger_stats, redis_client, redis, pc, payload, matching, idx,
      tasks, response, evCount, regOps, overlapped, winFires, winAge, cooling,
      launched, evCond, evPayload, evResult>>

handlerVars == <<pc, payload, matching, idx, tasks>>

historyVars == <<overlapped, winFires, winAge, cooling, launched>>

harnessVars == <<evCond, evPayload, evResult>>

NoPayload == "none"

\* A dict entry is a name and the TriggerConfig object stored under it; the
\* object is held by where it came from: <<"default", k>> for the k-th default
\* of _setup_default_triggers, else the key of the request body it was parsed
\* from.
Entry(name, body) == [name |-> name, body |-> body]

\* The TriggerConfig object of an entry; add_trigger sets its name.
ConfigOf(entry) ==
    IF entry.body[1] = "default" THEN DefaultTriggers[entry.body[2]]
    ELSE [_parse_trigger_config(Body(entry.body)) EXCEPT !.name = entry.name]

\* name -> 0 for the names without an entry
At(f, name) == IF name \in DOMAIN f THEN f[name] ELSE 0

Put(f, name, val) == [n \in DOMAIN f \cup {name} |-> IF n = name THEN val ELSE f[n]]

Resting(h) == pc[h] \in {"idle", "done", "crashed"}

InitMain ==
    /\ triggers = [k \in 1..Len(DefaultTriggers) |->
                      Entry(DefaultTriggers[k].name, <<"default", k>>)]
    /\ trigger_stats = <<>>
    /\ redis_client = "none"
    /\ redis = <<>>
    /\ pc = [h \in Handlers |-> "idle"]
    /\ payload = [h \in Handlers |-> NoPayload]
    /\ matching = [h \in Handlers |-> <<>>]
    /\ idx = [h \in Handlers |-> 0]
    /\ tasks = [h \in Handlers |-> <<>>]
    /\ response = "none"
    /\ evCount = 0
    /\ regOps = 0
    /\ overlapped = FALSE
    /\ winFires = <<>>
    /\ winAge = <<>>
    /\ cooling = <<>>
    /\ launched = <<>>

Init ==
    /\ InitMain
    /\ evCond = "unused"
    /\ evPayload = "unused"
    /\ evResult = "unused"

(***************************************************************************)
(* Startup and the registry routes                                         *)
(***************************************************************************)
\* startup_event -> initialize(): the routes are served once it has returned.
Initialize ==
    /\ redis_client = "none"
    /\ redis_client' = "ready"
    /\ UNCHANGED <<triggers, trigger_stats, redis, handlerVars, response, evCount,
                   regOps, historyVars, harnessVars>>

IndexOf(name) ==
    IF \E i \in 1..Len(triggers) : triggers[i].name = name
    THEN CHOOSE i \in 1..Len(triggers) : triggers[i].name = name
    ELSE 0

\* A faulty DictSet: the entry is added without looking for the key.
DictSetAppend(name, cfg) == Append(triggers, cfg)

\* self.triggers[trigger_name] = trigger_config
DictSet(name, cfg) ==
    IF IndexOf(name) = 0 THEN Append(triggers, cfg)
    ELSE [triggers EXCEPT ![IndexOf(name)] = cfg]

\* del self.triggers[trigger_name]
DictDel(name) ==
    [i \in 1..(Len(triggers) - 1) |->
        IF i < IndexOf(name) THEN triggers[i] ELSE triggers[i + 1]]

\* POST /triggers/{trigger_name}
add_trigger(trigger_name, config) ==
    /\ redis_client = "ready"
    /\ regOps' = regOps + 1
    /\ IF ParseRaises(Body(config))
       THEN /\ response' = "400"
            /\ UNCHANGED triggers
       ELSE /\ triggers' = DictSet(trigger_name, Entry(trigger_name, config))
            /\ response' = "created"
    /\ UNCHANGED <<trigger_stats, redis_client, redis, handlerVars, evCount,
                   historyVars, harnessVars>>

\* DELETE /triggers/{trigger_name}
remove_trigger(trigger_name) ==
    /\ redis_client = "ready"
    /\ regOps' = regOps + 1
    /\ IF IndexOf(trigger_name) # 0
       THEN /\ triggers' = DictDel(trigger_name)
            /\ response' = "deleted"
       ELSE /\ response' = "404"
            /\ UNCHANGED triggers
    /\ UNCHANGED <<trigger_stats, redis_client, redis, handlerVars, evCount,
                   historyVars, harnessVars>>

(***************************************************************************)
(* process_event                                                           *)
(***************************************************************************)
\* A faulty MatchFrom: every registered trigger is taken as matching.
MatchFromAll(regs, p, i) ==
    [raised |-> FALSE, list |-> SubSeq(regs, i, Len(regs))]

\* The matching loop: whether a condition raised, else the entries that match.
RECURSIVE MatchFrom(_, _, _)
MatchFrom(regs, p, i) ==
    IF i > Len(regs) THEN [raised |-> FALSE, list |-> <<>>]
    ELSE LET r == _evaluate_conditions(ConfigOf(regs[i]).conditions, Event(p))
             rest == MatchFrom(regs, p, i + 1)
         IN  IF r = "ERR" \/ rest.raised THEN [raised |-> TRUE, list |-> <<>>]
             ELSE IF r = "T" THEN [rest EXCEPT !.list = <<regs[i]>> \o @]
             ELSE rest

\* The background task a webhook route adds runs in the first free slot; the
\* matching loop has no suspension, so it is one step.
process_event(h, p) ==
    /\ redis_client = "ready"
    /\ Resting(h)
    /\ \A g \in Handlers : g < h => ~Resting(g)
    /\ evCount' = evCount + 1
    /\ overlapped' = (overlapped \/ \E g \in Handlers : ~Resting(g))
    /\ LET m == MatchFrom(triggers, p, 1)
       IN  IF m.raised
           THEN /\ pc' = [pc EXCEPT ![h] = "crashed"]
                /\ payload' = [payload EXCEPT ![h] = NoPayload]
                /\ matching' = [matching EXCEPT ![h] = <<>>]
                /\ idx' = [idx EXCEPT ![h] = 0]
           ELSE /\ pc' = [pc EXCEPT ![h] = "exec"]
                /\ payload' = [payload EXCEPT ![h] = p]
                /\ matching' = [matching EXCEPT ![h] = m.list]
                /\ idx' = [idx EXCEPT ![h] = 1]
    /\ UNCHANGED <<triggers, trigger_stats, redis_client, redis, tasks, response,
                   regOps, winFires, winAge, cooling, launched, harnessVars>>

\* A faulty Cur: the definition is looked up in the registry when it is used.
CurLive(h) ==
    LET name == matching[h][idx[h]].name
    IN  IF IndexOf(name) = 0 THEN ConfigOf(matching[h][idx[h]])
        ELSE ConfigOf(triggers[IndexOf(name)])

\* The trigger a handler is executing.
Cur(h) == ConfigOf(matching[h][idx[h]])

\* The loop over matching_triggers is exhausted: process_event returns.
FinishEvent(h) ==
    /\ pc[h] = "exec"
    /\ idx[h] > Len(matching[h])
    /\ pc' = [pc EXCEPT ![h] = "done"]
    /\ payload' = [payload EXCEPT ![h] = NoPayload]
    /\ matching' = [matching EXCEPT ![h] = <<>>]
    /\ idx' = [idx EXCEPT ![h] = 0]
    /\ UNCHANGED <<triggers, trigger_stats, redis_client, redis, tasks, response,
                   evCount, regOps, historyVars, harnessVars>>

(***************************************************************************)
(* _execute_trigger and _check_rate_limit                                  *)
(***************************************************************************)
\* A faulty TriggerEnabled: the enabled flag is not looked at.
TriggerEnabledIgnored(trigger) == TRUE

\* if not trigger.enabled: return
TriggerEnabled(trigger) == trigger.enabled

\* if not trigger.rate_limit or not self.redis_client: return True
NoRateCheck(trigger) == ~Truthy(trigger.rate_limit) \/ redis_client = "none"

\* if current and int(current) >= trigger.rate_limit: return False
OverLimit(trigger) ==
    /\ trigger.name \in DOMAIN redis
    /\ redis[trigger.name].count >= trigger.rate_limit[1]

\* pipe.incr(key); pipe.expire(key, 60), executed as one transaction
IncrExpire(name) ==
    Put(redis, name, [count |-> At([n \in DOMAIN redis |-> redis[n].count], name) + 1,
                      ttl |-> RateWindow])

Skip(h) ==
    /\ pc' = [pc EXCEPT ![h] = "exec"]
    /\ idx' = [idx EXCEPT ![h] = idx[h] + 1]

\* Entry of _execute_trigger up to its first suspension.
_execute_trigger(h) ==
    /\ pc[h] = "exec"
    /\ idx[h] <= Len(matching[h])
    /\ IF ~TriggerEnabled(Cur(h)) THEN Skip(h)
       ELSE IF NoRateCheck(Cur(h))
            THEN pc' = [pc EXCEPT ![h] = "launch"] /\ UNCHANGED idx
       ELSE pc' = [pc EXCEPT ![h] = "rl_get"] /\ UNCHANGED idx
    /\ UNCHANGED <<triggers, trigger_stats, redis_client, redis, payload, matching,
                   tasks, response, evCount, regOps, historyVars, harnessVars>>

\* current = await self.redis_client.get(key), and the test of it
RateLimitGet(h) ==
    /\ pc[h] = "rl_get"
    /\ IF OverLimit(Cur(h)) THEN Skip(h)
       ELSE pc' = [pc EXCEPT ![h] = "rl_incr"] /\ UNCHANGED idx
    /\ UNCHANGED <<triggers, trigger_stats, redis_client, redis, payload, matching,
                   tasks, response, evCount, regOps, historyVars, harnessVars>>

\* await pipe.execute()
RateLimitIncr(h) ==
    /\ pc[h] = "rl_incr"
    /\ redis' = IncrExpire(Cur(h).name)
    /\ pc' = [pc EXCEPT ![h] = "launch"]
    /\ UNCHANGED <<triggers, trigger_stats, redis_client, payload, matching, idx,
                   tasks, response, evCount, regOps, historyVars, harnessVars>>

\* A Redis call raises (connection lost): the exception leaves process_event.
RedisError(h) ==
    /\ pc[h] \in {"rl_get", "rl_incr"}
    /\ pc' = [pc EXCEPT ![h] = "crashed"]
    /\ payload' = [payload EXCEPT ![h] = NoPayload]
    /\ matching' = [matching EXCEPT ![h] = <<>>]
    /\ idx' = [idx EXCEPT ![h] = 0]
    /\ UNCHANGED <<triggers, trigger_stats, redis_client, redis, tasks, response,
                   evCount, regOps, historyVars, harnessVars>>

NewTask(action) ==
    [action |-> action, attempt |-> 0, pc |-> "run", rem |-> 0,
     tries |-> 0, sends |-> 0, ok |-> FALSE, waits |-> <<>>]

ZeroStats == [executions |-> 0, successes |-> 0, failures |-> 0]

\* A faulty StatsOf: the counters are initialised on every fire.
StatsOfFresh(name) == ZeroStats

\* if trigger.name not in self.trigger_stats: ... = {"executions": 0, ...}
StatsOf(name) == IF name \in DOMAIN trigger_stats THEN trigger_stats[name] ELSE ZeroStats

\* The gate is passed: executions += 1, one task per action, then gather.
Launch(h) ==
    /\ pc[h] = "launch"
    /\ LET t == Cur(h)
       IN  /\ trigger_stats' =
                Put(trigger_stats, t.name,
                    [StatsOf(t.name) EXCEPT !.executions = @ + 1])
           /\ tasks' = [tasks EXCEPT ![h] =
                          [i \in 1..Len(t.actions) |-> NewTask(t.actions[i])]]
           /\ launched' = Put(launched, t.name, At(launched, t.name) + Len(t.actions))
           /\ winFires' = IF t.rate_limit = None THEN winFires
                          ELSE Put(winFires, t.name, At(winFires, t.name) + 1)
           /\ winAge' = IF t.rate_limit = None \/ At(winFires, t.name) > 0 THEN winAge
                        ELSE Put(winAge, t.name, 0)
           /\ cooling' = IF t.cooldown = None THEN cooling
                         ELSE Put(cooling, t.name, t.cooldown[1])
    /\ pc' = [pc EXCEPT ![h] = "gather"]
    /\ UNCHANGED <<triggers, redis_client, redis, payload, matching, idx, response,
                   evCount, regOps, overlapped, harnessVars>>

(***************************************************************************)
(* _execute_action: one task per action                                    *)
(***************************************************************************)
\* The action types with a transport branch that sends.
SendingTypes == {"http", "kafka", "redis"}

\* The action types with a branch in _execute_action.
DispatchedTypes == SendingTypes \cup {"grpc"}

RECURSIVE Pow2(_)
Pow2(n) == IF n = 0 THEN 1 ELSE 2 * Pow2(n - 1)

\* asyncio.sleep(2 ** attempt)
Backoff(attempt) == Pow2(attempt)

\* A faulty LastAttempt: the loop gives up one attempt early.
LastAttemptEarly(task) == task.attempt + 1 >= task.action.retries

\* if attempt == action.retries: raise
LastAttempt(task) == task.attempt = task.action.retries

\* A faulty AttemptStep: a successful send does not leave the retry loop.
AttemptStepNoReturn(task, sent_ok) ==
    IF task.attempt > task.action.retries
    THEN [task EXCEPT !.pc = "ok"]
    ELSE IF task.action.type \notin DispatchedTypes
    THEN [task EXCEPT !.pc = "ok", !.tries = @ + 1]
    ELSE IF task.action.type = "grpc"
    THEN [task EXCEPT !.pc = "ok", !.tries = @ + 1, !.ok = TRUE]
    ELSE IF LastAttempt(task)
    THEN [task EXCEPT !.pc = IF sent_ok THEN "ok" ELSE "exc", !.tries = @ + 1,
                      !.sends = @ + 1, !.ok = sent_ok]
    ELSE [task EXCEPT !.pc = "sleep", !.tries = @ + 1, !.sends = @ + 1,
                      !.ok = @ \/ sent_ok,
                      !.rem = Backoff(task.attempt),
                      !.waits = Append(@, Backoff(task.attempt))]

\* One iteration of the retry loop of task i of handler h; sent_ok is the
\* outcome of the transport when the branch sends.
AttemptStep(task, sent_ok) ==
    IF task.attempt > task.action.retries
    THEN \* range(retries + 1) is empty: the coroutine returns None
         [task EXCEPT !.pc = "ok"]
    ELSE IF task.action.type \notin DispatchedTypes
    THEN \* logger.warning("Unknown action type"); return
         [task EXCEPT !.pc = "ok", !.tries = @ + 1]
    ELSE IF task.action.type = "grpc"
    THEN \* _execute_grpc_action only logs
         [task EXCEPT !.pc = "ok", !.tries = @ + 1, !.ok = TRUE]
    ELSE IF sent_ok
    THEN [task EXCEPT !.pc = "ok", !.tries = @ + 1, !.sends = @ + 1, !.ok = TRUE]
    ELSE IF LastAttempt(task)
    THEN [task EXCEPT !.pc = "exc", !.tries = @ + 1, !.sends = @ + 1]
    ELSE [task EXCEPT !.pc = "sleep", !.tries = @ + 1, !.sends = @ + 1,
                      !.rem = Backoff(task.attempt),
                      !.waits = Append(@, Backoff(task.attempt))]

_execute_action(h, i, sent_ok) ==
    /\ pc[h] = "gather"
    /\ i \in 1..Len(tasks[h])
    /\ tasks[h][i].pc = "run"
    /\ sent_ok \/ ( /\ tasks[h][i].attempt <= tasks[h][i].action.retries
                    /\ tasks[h][i].action.type \in SendingTypes )
    /\ tasks' = [tasks EXCEPT ![h][i] = AttemptStep(tasks[h][i], sent_ok)]
    /\ UNCHANGED <<triggers, trigger_stats, redis_client, redis, pc, payload,
                   matching, idx, response, evCount, regOps, historyVars,
                   harnessVars>>

\* The backoff sleep is over: the loop goes to its next attempt.
Wake(h, i) ==
    /\ pc[h] = "gather"
    /\ i \in 1..Len(tasks[h])
    /\ tasks[h][i].pc = "sleep"
    /\ tasks[h][i].rem = 0
    /\ tasks' = [tasks EXCEPT ![h][i] = [@ EXCEPT !.pc = "run", !.attempt = @ + 1]]
    /\ UNCHANGED <<triggers, trigger_stats, redis_client, redis, pc, payload,
                   matching, idx, response, evCount, regOps, historyVars,
                   harnessVars>>

\* A faulty TaskDone: only a task that returned counts as done.
TaskDoneOnlyOk(task) == task.pc = "ok"

\* The task has returned or raised.
TaskDone(task) == task.pc \in {"ok", "exc"}

\* sum(1 for r in results if not isinstance(r, Exception))
Successes(ts) == Cardinality({i \in 1..Len(ts) : ts[i].pc # "exc"})

\* A faulty GatherReturns: gather without return_exceptions, which returns at
\* the first exception.
GatherReturnsOnException(h) ==
    \/ \A i \in 1..Len(tasks[h]) : tasks[h][i].pc \in {"ok", "exc"}
    \/ \E i \in 1..Len(tasks[h]) : tasks[h][i].pc = "exc"

\* asyncio.gather(*tasks, return_exceptions=True) returns once every task is done.
GatherReturns(h) == \A i \in 1..Len(tasks[h]) : TaskDone(tasks[h][i])

\* gather has every result: the counters are updated and the trigger is done.
Aggregate(h) ==
    /\ pc[h] = "gather"
    /\ GatherReturns(h)
    /\ LET name == Cur(h).name
           successes == Successes(tasks[h])
           failures == Len(tasks[h]) - successes
       IN  trigger_stats' =
               [trigger_stats EXCEPT ![name] =
                   [@ EXCEPT !.successes = @ + successes, !.failures = @ + failures]]
    /\ tasks' = [tasks EXCEPT ![h] = <<>>]
    /\ Skip(h)
    /\ UNCHANGED <<triggers, redis_client, redis, payload, matching, response,
                   evCount, regOps, historyVars, harnessVars>>

(***************************************************************************)
(* Time                                                                    *)
(***************************************************************************)
Max0(n) == IF n > 0 THEN n ELSE 0

\* d time units pass: Redis keys age and expire, sleeps run down.
Tick(d) ==
    /\ redis_client = "ready"
    /\ redis' = [n \in {k \in DOMAIN redis : redis[k].ttl > d} |->
                    [redis[n] EXCEPT !.ttl = @ - d]]
    /\ tasks' = [h \in Handlers |->
                    [i \in 1..Len(tasks[h]) |->
                        [tasks[h][i] EXCEPT !.rem = Max0(@ - d)]]]
    /\ winAge' = [n \in {k \in DOMAIN winAge : winAge[k] + d < RateWindow} |->
                    winAge[n] + d]
    /\ winFires' = [n \in {k \in DOMAIN winFires : At(winAge, k) + d < RateWindow} |->
                    winFires[n]]
    /\ cooling' = [n \in {k \in DOMAIN cooling : cooling[k] > d} |-> cooling[n] - d]
    /\ UNCHANGED <<triggers, trigger_stats, redis_client, pc, payload, matching,
                   idx, response, evCount, regOps, overlapped, launched,
                   harnessVars>>

\* The next-state relation for the request bodies and events of one scenario
\* family; maxOps and maxEv cap the calls of one behaviour.
NextOver(configs, events, maxOps, maxEv) ==
    \/ Initialize
    \/ regOps < maxOps /\ \E n \in RouteNames, c \in configs : add_trigger(n, c)
    \/ regOps < maxOps /\ \E n \in RouteNames : remove_trigger(n)
    \/ evCount < maxEv /\ \E h \in Handlers, p \in events : process_event(h, p)
    \/ \E h \in Handlers : _execute_trigger(h)
    \/ \E h \in Handlers : RateLimitGet(h)
    \/ \E h \in Handlers : RateLimitIncr(h)
    \/ \E h \in Handlers : RedisError(h)
    \/ \E h \in Handlers : Launch(h)
    \/ \E h \in Handlers, i \in 1..2, ok \in BOOLEAN : _execute_action(h, i, ok)
    \/ \E h \in Handlers, i \in 1..2 : Wake(h, i)
    \/ \E h \in Handlers : Aggregate(h)
    \/ \E h \in Handlers : FinishEvent(h)
    \/ \E d \in TickSteps : Tick(d)

Next == NextOver(GateConfigs, GateEvents, MaxRegOps, MaxEvents)

Spec == Init /\ [][Next]_vars

NextActions == NextOver(ActionConfigs, ActionEvents, MaxActionRegOps, MaxActionEvents)

SpecActions == Init /\ [][NextActions]_vars

\* The steps of the handlers and of time: every transport attempt and every
\* Redis call returns, every sleep ends.
Progress ==
    \/ \E h \in Handlers : _execute_trigger(h)
    \/ \E h \in Handlers : RateLimitGet(h)
    \/ \E h \in Handlers : RateLimitIncr(h)
    \/ \E h \in Handlers : RedisError(h)
    \/ \E h \in Handlers : Launch(h)
    \/ \E h \in Handlers, i \in 1..2, ok \in BOOLEAN : _execute_action(h, i, ok)
    \/ \E h \in Handlers, i \in 1..2 : Wake(h, i)
    \/ \E h \in Handlers : Aggregate(h)
    \/ \E h \in Handlers : FinishEvent(h)
    \/ \E d \in TickSteps : Tick(d)

\* One event per coroutine slot and one route call per name.
NextLive ==
    NextOver(LiveConfigs, ActionEvents, Cardinality(RouteNames), Cardinality(Handlers))

\* The event loop runs: a step of a handler or of time that is possible is
\* eventually taken.
SpecLive == Init /\ [][NextLive]_vars /\ WF_vars(Progress)

NextRegistry ==
    NextOver(RegistryConfigs, RegistryEvents, MaxRegistryOps, MaxRegistryEvents)

SpecRegistry == Init /\ [][NextRegistry]_vars

NextWindow == NextOver(WindowConfigs, GateEvents, MaxRegOps, MaxEvents)

SpecWindow == Init /\ [][NextWindow]_vars

NextRetries == NextOver(RetryConfigs, ActionEvents, MaxRegOps, MaxEvents)

SpecRetries == Init /\ [][NextRetries]_vars

NextFan == NextOver(FanConfigs, FanEvents, MaxFanOps, MaxFanEvents)

SpecFan == Init /\ [][NextFan]_vars

(***************************************************************************)
(* The condition evaluator on its own: Init draws a condition and an       *)
(* event, Evaluate applies _evaluate_condition.                            *)
(***************************************************************************)
\* an event with metadata
EvRegion ==
    EventPayload(S_deployment_completed, S_github, <<>>, (S_region :> PyStr(S_eu)))

EvalFields ==
    {S_event_type, S_source, S_data_severity, S_data_email, S_metadata_region,
     S_data_prefix, S_payload_x}

EvalValues ==
    {PyNone, PyInt(5), PyInt(8), PyStr(S_at), PyStr(S_alert_critical),
     PyList(<<PyInt(5), PyStr(S_eu)>>), PyList(<<PyNone>>)}

EvalConds ==
    {Condition(f, op, v) : f \in EvalFields, op \in ConditionOperators, v \in EvalValues}

EvalEvent(key) == IF key = "region" THEN EvRegion ELSE Event(key)

EvalPayloads == {"alert-low", "alert-bare", "user-created", "region"}

InitEval ==
    /\ InitMain
    /\ evCond \in EvalConds
    /\ evPayload \in EvalPayloads
    /\ evResult = "pending"

Evaluate ==
    /\ evResult = "pending"
    /\ evResult' = _evaluate_condition(evCond, EvalEvent(evPayload))
    /\ UNCHANGED <<triggers, trigger_stats, redis_client, redis, handlerVars,
                   response, evCount, regOps, historyVars, evCond, evPayload>>

NextEval == Evaluate

SpecEval == InitEval /\ [][NextEval]_vars

(***************************************************************************)
(* Properties                                                              *)
(***************************************************************************)
\* The coroutine of handler h leaves the gate of the trigger it is at.
GateAccepts(h) == pc[h] \in {"exec", "rl_incr"} /\ pc'[h] = "launch"

GateRejects(h) == pc[h] = "rl_get" /\ pc'[h] = "exec"

\* gather returns to handler h and the counters are updated.
Aggregates(h) == pc[h] = "gather" /\ pc'[h] = "exec"

\* No task is created and no counter moves in this step.
NothingDispatched ==
    /\ tasks' = tasks
    /\ trigger_stats' = trigger_stats
    /\ launched' = launched

\* C1: a trigger whose definition has enabled=false is never dispatched: the
\* handler that reaches it in its loop over the matching triggers moves on to
\* the next one, launches no task, leaves every counter as it was, and no
\* handler is ever past the enabled test with a disabled trigger.
C1_DisabledNeverDispatched ==
    [][\A h \in Handlers :
          /\ ( /\ pc[h] = "exec"
               /\ idx[h] <= Len(matching[h])
               /\ ~Cur(h).enabled
               /\ (pc'[h] # pc[h] \/ idx'[h] # idx[h]) )
             => ( /\ pc'[h] = "exec"
                  /\ idx'[h] = idx[h] + 1
                  /\ NothingDispatched
                  /\ redis' = redis )
          /\ pc'[h] \in {"rl_get", "rl_incr", "launch", "gather"}
             => ConfigOf(matching'[h][idx'[h]]).enabled
      ]_vars

\* A handler has gone past a disabled trigger that matched its event, and the
\* trigger has no counters.
C1_Witness ==
    \E h \in Handlers :
        /\ pc[h] = "exec"
        /\ idx[h] = 2
        /\ matching[h][1].name = "x"
        /\ ~ConfigOf(matching[h][1]).enabled
        /\ "x" \notin DOMAIN trigger_stats

\* C2: the rate limiter's check and increment are atomic: every increment that
\* lets a fire through starts from a counter value below the limit, so no two
\* handlers pass the check on the same value and exceed the limit.
C2_CheckAndIncrementAtomic ==
    [][\A h \in Handlers :
          (pc[h] = "rl_incr" /\ pc'[h] = "launch")
          => At([n \in DOMAIN redis |-> redis[n].count], Cur(h).name)
                < Cur(h).rate_limit[1]
      ]_vars

\* C3: with events processed one after another and a limit N >= 0 configured,
\* a matching event fires exactly when fewer than N fires were accepted in the
\* current window (the first N fire, the next is rejected, and after the
\* window has expired fires resume).
C3_LimitPerWindow ==
    [][~overlapped' =>
          \A h \in Handlers :
              /\ (GateAccepts(h) /\ Cur(h).rate_limit # None)
                 => At(winFires, Cur(h).name)
                       < Cur(h).rate_limit[1]
              /\ GateRejects(h)
                 => At(winFires, Cur(h).name)
                       >= Cur(h).rate_limit[1]
      ]_vars

\* C4: a trigger with a cooldown passes the gate only when the cooldown since
\* its last fire has elapsed, whatever the rate-limit counter says.
C4_CooldownGate ==
    [][\A h \in Handlers :
          (GateAccepts(h) /\ Cur(h).cooldown # None)
          => At(cooling, Cur(h).name) = 0
      ]_vars

\* C5: an action with retries R >= 0 whose transport fails on every attempt is
\* attempted exactly R+1 times, waits 2^k after failed attempt k < R, takes no
\* wait after the last attempt and ends in the exception that the caller gets.
C5_RetriesAndBackoff ==
    \A h \in Handlers : \A i \in 1..Len(tasks[h]) :
        LET t == tasks[h][i]
            R == t.action.retries
        IN  (R >= 0 /\ t.action.type \in SendingTypes /\ ~t.ok)
            => /\ t.pc # "ok"
               /\ t.sends = t.tries
               /\ t.tries <= R + 1
               /\ \A k \in 1..Len(t.waits) : t.waits[k] = 2 ^ (k - 1)
               /\ t.pc = "run" => Len(t.waits) = t.tries
               /\ t.pc = "sleep" => Len(t.waits) = t.tries /\ t.tries <= R
               /\ t.pc = "exc" => t.tries = R + 1 /\ Len(t.waits) = R

\* An action with retries 3 has failed four sends, with waits 1, 2 and 4.
C5_Witness ==
    \E h \in Handlers : \E i \in 1..Len(tasks[h]) :
        /\ tasks[h][i].action.retries = 3
        /\ tasks[h][i].pc = "exc"
        /\ tasks[h][i].sends = 4
        /\ tasks[h][i].waits = <<1, 2, 4>>

\* C6: the actions of a fired trigger form a barrier without cancellation: the
\* terminal failure of one action changes no sibling, a finished action keeps
\* its outcome, and the counters are updated only when every action is done,
\* by one success or failure per action.
C6_BarrierWithoutCancellation ==
    [][\A h \in Handlers :
          /\ Aggregates(h)
             => /\ \A i \in 1..Len(tasks[h]) : tasks[h][i].pc \in {"ok", "exc"}
                /\ LET name == Cur(h).name
                   IN  /\ trigger_stats'[name].successes - trigger_stats[name].successes
                            = Cardinality({i \in 1..Len(tasks[h]) : tasks[h][i].pc = "ok"})
                       /\ trigger_stats'[name].failures - trigger_stats[name].failures
                            = Cardinality({i \in 1..Len(tasks[h]) : tasks[h][i].pc = "exc"})
          /\ (pc[h] = "gather" /\ ~Aggregates(h))
             => /\ pc'[h] = "gather"
                /\ Len(tasks'[h]) = Len(tasks[h])
                /\ \A i \in 1..Len(tasks[h]) :
                      /\ tasks[h][i].pc \in {"ok", "exc"} => tasks'[h][i] = tasks[h][i]
                      /\ (tasks[h][i].pc # "exc" /\ tasks'[h][i].pc = "exc")
                         => \A j \in 1..Len(tasks[h]) :
                               j # i => tasks'[h][j] = tasks[h][j]
      ]_vars

\* One action has failed for good while its sibling, which has already failed
\* a send, is still in its backoff sleep.
C6_Witness ==
    \E h \in Handlers :
        /\ pc[h] = "gather"
        /\ Len(tasks[h]) = 2
        /\ tasks[h][2].pc = "exc"
        /\ tasks[h][1].pc = "sleep"
        /\ tasks[h][1].sends >= 1

\* C7: an accepted fire adds 1 to executions, and its aggregation adds to
\* successes the number of its actions that had a successful attempt and to
\* failures the number that exhausted their retries, k in all.
C7_StatsPerFire ==
    [][\A h \in Handlers :
          /\ (pc[h] = "launch" /\ pc'[h] = "gather")
             => trigger_stats'[Cur(h).name].executions
                   = At([n \in DOMAIN trigger_stats |-> trigger_stats[n].executions],
                        Cur(h).name) + 1
          /\ Aggregates(h)
             => LET name == Cur(h).name
                    ds == trigger_stats'[name].successes - trigger_stats[name].successes
                    df == trigger_stats'[name].failures - trigger_stats[name].failures
                IN  /\ trigger_stats'[name].executions = trigger_stats[name].executions
                    /\ ds = Cardinality({i \in 1..Len(tasks[h]) : tasks[h][i].ok})
                    /\ df = Cardinality({i \in 1..Len(tasks[h]) : tasks[h][i].pc = "exc"})
                    /\ ds + df = Len(tasks[h])
      ]_vars

\* C8: an event that does not match a trigger, or that matches and is rejected
\* by the gate, launches none of its actions and changes no counter: matching
\* itself dispatches nothing, only triggers whose conditions all hold are kept
\* for execution (alert.critical with severity 5 never keeps critical-alert,
\* whose condition is data.severity gte 8), tasks are those of the trigger at
\* hand, and a rejection moves on to the next trigger with nothing dispatched.
C8_NoMatchOrRejectionIsNoOp ==
    [][/\ evCount' # evCount => NothingDispatched
       /\ \A h \in Handlers :
             /\ \A i \in 1..Len(matching'[h]) :
                   /\ _evaluate_conditions(ConfigOf(matching'[h][i]).conditions,
                                           Event(payload'[h])) = "T"
                   /\ payload'[h] = "alert-low"
                      => matching'[h][i].name # "critical-alert"
             /\ \A i \in 1..Len(tasks'[h]) :
                   tasks'[h][i].action = ConfigOf(matching'[h][idx'[h]]).actions[i]
             /\ GateRejects(h)
                => /\ idx'[h] = idx[h] + 1
                   /\ NothingDispatched
                   /\ redis' = redis
      ]_vars

\* Two events matched the same trigger with rate_limit 1 and both are past it:
\* one fired, the other was rejected.
C8_Witness ==
    /\ \A h \in Handlers :
          /\ pc[h] = "exec"
          /\ idx[h] = 2
          /\ ConfigOf(matching[h][1]).rate_limit = Some(1)
    /\ trigger_stats["x"].executions = 1
    /\ trigger_stats["x"].successes + trigger_stats["x"].failures = 1

\* C9: an action whose type has no transport branch is an immediate failure:
\* it makes no send, is not retried, ends in an exception and is counted in
\* the trigger's failures.
C9_UnknownKindFails ==
    [][\A h \in Handlers :
          /\ \A i \in 1..Len(tasks'[h]) :
                tasks'[h][i].action.type \notin DispatchedTypes
                => /\ tasks'[h][i].sends = 0
                   /\ tasks'[h][i].tries <= 1
                   /\ tasks'[h][i].pc # "ok"
          /\ Aggregates(h)
             => trigger_stats'[Cur(h).name].failures
                   - trigger_stats[Cur(h).name].failures
                >= Cardinality({i \in 1..Len(tasks[h]) :
                                   tasks[h][i].action.type \notin DispatchedTypes})
      ]_vars

\* The field path grammar: event_type, source, data.<key> and metadata.<key>
\* with the key present.
Resolves(field, p) ==
    \/ field \in {S_event_type, S_source}
    \/ StartsWith(field, S_data_prefix) /\ DropPrefix(field, 5) \in DOMAIN p.data
    \/ StartsWith(field, S_metadata_prefix) /\ DropPrefix(field, 9) \in DOMAIN p.metadata

\* C10: a condition whose field path does not resolve in the event evaluates
\* to false for eq, gt, lt, gte, lte, contains, in and not_in, to true for ne
\* against a concrete value only, and never raises.
C10_AbsentFieldIsFalse ==
    ( /\ evResult \notin {"pending", "unused"}
      /\ evCond.operator # "regex"
      /\ ~Resolves(evCond.field, EvalEvent(evPayload)) )
    => evResult = (IF evCond.operator = "ne" /\ evCond.value.t # "none"
                   THEN "T" ELSE "F")

\* The operands of an ordering comparison that Python can order.
Orderable(a, b) == a.t = b.t /\ a.t \in {"int", "str"}

\* C11: condition evaluation is total: every condition on every event yields
\* true or false and never an error; gt, lt, gte and lte on operands that are
\* not mutually orderable yield false, and an operator without an evaluation
\* branch yields false.
C11_EvaluationTotal ==
    evResult \notin {"pending", "unused"}
    => /\ evResult \in {"T", "F"}
       /\ evCond.operator = "regex" => evResult = "F"
       /\ ( /\ evCond.operator \in {"gt", "lt", "gte", "lte"}
            /\ ~Orderable(_extract_value(evCond.field, EvalEvent(evPayload)),
                          evCond.value) )
          => evResult = "F"

\* All conditions of the entry's trigger hold on the event.
Matches(entry, p) ==
    _evaluate_conditions(ConfigOf(entry).conditions, Event(p)) = "T"

\* C12: every event is matched against all registered triggers and every
\* matching trigger is reached by the execution loop; an evaluation anomaly, a
\* failing rate-limit check or failing actions of one trigger never stop the
\* others and never leave event processing as an error.
C12_AllTriggersNoErrorOut ==
    [][\A h \in Handlers :
          /\ pc'[h] # "crashed"
          /\ (Resting(h) /\ pc'[h] = "exec")
             => matching'[h] = SelectSeq(triggers, LAMBDA e : Matches(e, payload'[h]))
          /\ (pc[h] = "exec" /\ pc'[h] = "done") => idx[h] = Len(matching[h]) + 1
          /\ (pc[h] # "exec" /\ pc'[h] = "exec" /\ ~Resting(h))
             => idx'[h] = idx[h] + 1
      ]_vars

\* The entries of a registry, as a set.
Entries(regs) == {regs[i] : i \in 1..Len(regs)}

\* list_triggers: list(self.triggers.keys())
list_triggers(regs) == [i \in 1..Len(regs) |-> regs[i].name]

\* C13: trigger names are unique keys of the registry: the list of names never
\* holds a name twice, a successful add stores one whole definition under its
\* name and leaves the other entries alone (in place when the name existed, at
\* the end otherwise), and an event whose matching starts afterwards is matched
\* against, and dispatches the actions of, the definitions then registered.
C13_NamesUniqueLatestWins ==
    [][/\ \A i, j \in 1..Len(triggers') :
             list_triggers(triggers')[i] = list_triggers(triggers')[j] => i = j
       /\ (regOps' # regOps /\ response' = "created")
          => \E n \in RouteNames, c \in RegistryConfigs :
                /\ Entry(n, c) \in Entries(triggers')
                /\ ConfigOf(Entry(n, c)).name = n
                /\ Entries(triggers') \ {Entry(n, c)}
                      = {e \in Entries(triggers) : e.name # n}
                /\ Len(triggers') = Len(triggers)
                                    + (IF n \in {e.name : e \in Entries(triggers)}
                                       THEN 0 ELSE 1)
       /\ \A h \in Handlers :
             /\ (Resting(h) /\ pc'[h] = "exec")
                => Entries(matching'[h]) \subseteq Entries(triggers)
             /\ (pc[h] = "launch" /\ pc'[h] = "gather")
                => /\ matching[h][idx[h]] \in Entries(matching[h])
                   /\ Len(tasks'[h]) = Len(ConfigOf(matching[h][idx[h]]).actions)
                   /\ \A i \in 1..Len(tasks'[h]) :
                         tasks'[h][i].action
                            = ConfigOf(matching[h][idx[h]]).actions[i]
      ]_vars

\* "x" was registered twice with different action lists: an event matched
\* before the replacement holds the first definition, an event matched after
\* it dispatches the actions of the second, and the registry lists "x" once.
C13_Witness ==
    /\ Len(triggers) = Len(DefaultTriggers) + 1
    /\ triggers[Len(triggers)] = Entry("x", <<"unknown-kind">>)
    /\ matching[1] = <<Entry("x", <<"cooldown">>)>>
    /\ matching[2] = <<Entry("x", <<"unknown-kind">>)>>
    /\ pc[2] = "gather"
    /\ Len(tasks[2]) = 2

\* The malformed request bodies: an unknown operator, an unknown action kind,
\* a required field missing.
MalformedBodies == {<<"bad-operator">>, <<"bad-kind">>, <<"no-target">>, <<"no-name">>}

\* C14: registering a malformed definition is answered with an error and
\* leaves the registry as it was, an existing entry of that name included;
\* removing a name that is not registered is answered not-found and changes
\* nothing; no malformed definition is ever stored.
C14_MalformedRejectedAtomically ==
    [][/\ \A n \in RouteNames, c \in MalformedBodies :
             add_trigger(n, c) => (response' = "400" /\ triggers' = triggers)
       /\ \A n \in RouteNames :
             (remove_trigger(n) /\ n \notin {e.name : e \in Entries(triggers)})
             => (response' = "404" /\ triggers' = triggers)
       /\ (regOps' # regOps /\ response' \in {"400", "404"}) => triggers' = triggers
       /\ \A e \in Entries(triggers') : e.body \notin MalformedBodies
      ]_vars

\* "x" is registered and a malformed definition posted for it afterwards was
\* rejected: the entry is the one registered before.
C14_Witness ==
    /\ regOps = 2
    /\ response = "400"
    /\ Entry("x", <<"cooldown">>) \in Entries(triggers)

\* C15: every counter of every trigger name is monotonically non-decreasing:
\* no step, removal or replacement of the trigger included, decreases, resets
\* or deletes the counters of a name.
C15_StatsMonotonic ==
    [][\A n \in DOMAIN trigger_stats :
          /\ n \in DOMAIN trigger_stats'
          /\ trigger_stats'[n].executions >= trigger_stats[n].executions
          /\ trigger_stats'[n].successes >= trigger_stats[n].successes
          /\ trigger_stats'[n].failures >= trigger_stats[n].failures
      ]_vars

\* "x" has fired and was removed afterwards: its counters are still there.
C15_Witness ==
    /\ response = "deleted"
    /\ "x" \notin {e.name : e \in Entries(triggers)}
    /\ "x" \in DOMAIN trigger_stats
    /\ trigger_stats["x"].executions = 1
    /\ trigger_stats["x"].successes + trigger_stats["x"].failures >= 1

\* Handler h is waiting on an action of its current trigger that sleeps in
\* its retry backoff.
BackoffPending(h) ==
    /\ pc[h] = "gather"
    /\ \E i \in 1..Len(tasks[h]) : tasks[h][i].pc = "sleep" /\ tasks[h][i].rem > 0

\* C16: actions of different triggers run independently, also for two triggers
\* matched by the same event: while an action of one trigger sleeps in its
\* backoff, the next matching trigger of the same event can be started, and a
\* trigger of another event can be started.
C16_TriggersIndependent ==
    \A h \in Handlers :
        BackoffPending(h)
        => /\ idx[h] < Len(matching[h])
              => ENABLED (NextFan /\ idx'[h] = idx[h] + 1)
           /\ \A g \in Handlers \ {h} :
                 (pc[g] = "exec" /\ idx[g] <= Len(matching[g]))
                 => ENABLED _execute_trigger(g)

\* C17: the rate-limit window is fixed: the first increment of a fresh window
\* sets the expiry one window length ahead, and a later increment in the same
\* window does not move it (stated for events processed one after another).
C17_FixedWindow ==
    [][~overlapped'
       => \A n \in DOMAIN redis' :
             /\ n \notin DOMAIN redis
                => (redis'[n].count = 1 /\ redis'[n].ttl = RateWindow)
             /\ (n \in DOMAIN redis /\ redis'[n].count > redis[n].count)
                => redis'[n].ttl = redis[n].ttl
      ]_vars

\* C18: each event is matched against the registry as it is when its
\* processing starts, by whole entries, and registry operations interleaved
\* with the rest of its processing change neither the list of its matching
\* triggers nor the definition used for each: the enabled flag, the rate limit
\* and the action list are those of the matched entry.
C18_SnapshotPerEvent ==
    [][\A h \in Handlers :
          /\ (Resting(h) /\ pc'[h] = "exec")
             => matching'[h] = SelectSeq(triggers, LAMBDA e : Matches(e, payload'[h]))
          /\ (~Resting(h) /\ pc'[h] \notin {"done", "crashed"})
             => (matching'[h] = matching[h] /\ payload'[h] = payload[h])
          /\ (pc[h] = "exec" /\ idx[h] <= Len(matching[h]) /\ pc'[h] = "exec"
                /\ idx'[h] # idx[h])
             => ~ConfigOf(matching[h][idx[h]]).enabled
          /\ (pc[h] = "exec" /\ pc'[h] = "rl_get")
             => /\ ConfigOf(matching[h][idx[h]]).enabled
                /\ Truthy(ConfigOf(matching[h][idx[h]]).rate_limit)
          /\ (pc[h] = "exec" /\ pc'[h] = "launch")
             => /\ ConfigOf(matching[h][idx[h]]).enabled
                /\ ~Truthy(ConfigOf(matching[h][idx[h]]).rate_limit)
          /\ (pc[h] = "launch" /\ pc'[h] = "gather")
             => /\ tasks'[h] = [i \in 1..Len(ConfigOf(matching[h][idx[h]]).actions) |->
                                   NewTask(ConfigOf(matching[h][idx[h]]).actions[i])]
                /\ trigger_stats'[matching[h][idx[h]].name].executions
                      = At([n \in DOMAIN trigger_stats |-> trigger_stats[n].executions],
                           matching[h][idx[h]].name) + 1
      ]_vars

\* An event matched "x", "x" was replaced by another definition before the
\* event executed it, and the event still holds the definition it matched.
C18_Witness ==
    /\ pc[1] = "exec"
    /\ idx[1] = 1
    /\ matching[1] = <<Entry("x", <<"cooldown">>)>>
    /\ Entry("x", <<"unknown-kind">>) \in Entries(triggers)

\* C19: a successful attempt ends the action: the action is done and reported
\* as a success, also after failed attempts; its sends are the failed ones,
\* each followed by one wait, and the successful one; once it has succeeded it
\* makes no further attempt and takes no further wait; and the aggregation
\* counts it in the successes.
C19_SuccessEndsAction ==
    [][\A h \in Handlers :
          /\ \A i \in 1..Len(tasks'[h]) :
                LET t == tasks'[h][i]
                IN  /\ t.ok => t.pc = "ok"
                    /\ (t.ok /\ t.action.type \in SendingTypes)
                       => (t.sends = Len(t.waits) + 1 /\ t.tries = t.sends)
                    /\ (pc[h] = "gather" /\ i <= Len(tasks[h]) /\ tasks[h][i].ok)
                       => t = tasks[h][i]
          /\ Aggregates(h)
             => trigger_stats'[Cur(h).name].successes
                   - trigger_stats[Cur(h).name].successes
                >= Cardinality({i \in 1..Len(tasks[h]) : tasks[h][i].ok})
      ]_vars

\* An action succeeded at its third attempt, after two failed attempts and the
\* waits 1 and 2, with one retry left unused.
C19_Witness ==
    \E h \in Handlers : \E i \in 1..Len(tasks[h]) :
        /\ tasks[h][i].action.retries = 3
        /\ tasks[h][i].ok
        /\ tasks[h][i].pc = "ok"
        /\ tasks[h][i].sends = 3
        /\ tasks[h][i].waits = <<1, 2>>

\* C20: processing of every submitted event eventually completes, whatever
\* the outcomes of the attempts: a handler that has started an event gets to
\* the end of process_event, so no barrier stays closed, and no action makes
\* more than retries + 1 attempts.
C20_EveryEventCompletes ==
    \A h \in Handlers :
        /\ (~Resting(h)) ~> Resting(h)
        /\ [](\A i \in 1..Len(tasks[h]) :
                 tasks[h][i].tries <= tasks[h][i].action.retries + 1)

\* An event is completed after both actions of its trigger exhausted their
\* retries.
C20_Witness ==
    \E h \in Handlers :
        /\ pc[h] = "done"
        /\ "x" \in DOMAIN trigger_stats
        /\ trigger_stats["x"].failures = 2
        /\ launched["x"] = 2

\* C21: an action is counted in the successes only if a transport send was
\* made for it and succeeded: at the aggregation every action of the trigger
\* has made at least one send and, for retries >= 0, at most retries + 1, and
\* the successes grow by no more than the number of actions with a send that
\* succeeded; an action without any attempt is never a success.
C21_SuccessNeedsSend ==
    [][\A h \in Handlers :
          Aggregates(h)
          => /\ \A i \in 1..Len(tasks[h]) :
                   /\ tasks[h][i].sends >= 1
                   /\ tasks[h][i].sends <= Max0(tasks[h][i].action.retries) + 1
             /\ trigger_stats'[Cur(h).name].successes
                   - trigger_stats[Cur(h).name].successes
                <= Cardinality({i \in 1..Len(tasks[h]) :
                                   tasks[h][i].sends >= 1 /\ tasks[h][i].ok})
      ]_vars

====
